---- MODULE Spec2Model ----
(***************************************************************************)
(* A model of claude_session_summary.py: the index parser, the orphan      *)
(* finder, the session collector, the date grouper, the project-path       *)
(* decoder and the transcript viewer.                                      *)
(*                                                                         *)
(* Strings on which the code does string operations (slicing, startswith,  *)
(* substring, split, join, replace) are sequences of one-character         *)
(* strings.  A JSON object is a function from its keys to its values, so   *)
(* dict.get(k, d) is Get(o, k, d).  An Optional value is <<>> (None) or a   *)
(* one-element sequence.  A datetime is [wall, off]: the wall-clock        *)
(* reading in hours and the optional UTC offset (<<>> when naive).         *)
(***************************************************************************)
EXTENDS Integers, Sequences, FiniteSets, TLC

VARIABLES
    pc,                  \* where the running call stands
    indexes,             \* the sessions-index.json files: project dir -> file
    logs,                \* the *.jsonl files: [dir, name] -> [mtime, lines]
    argv,                \* the call's arguments: [view, max_messages]
    stdout,              \* what print() has written
    todo,                \* collect_all_sessions: index paths not yet parsed
    all_sessions,        \* collect_all_sessions: all_sessions
    indexed_session_ids, \* collect_all_sessions: indexed_session_ids
    orphans,             \* collect_all_sessions: orphans
    matches,             \* find_session_file: matches
    out_lines,           \* view_session: lines
    message_count,       \* view_session: message_count
    lineno,              \* view_session: the next line of the file to read
    sessions,            \* group_sessions_by_date: its argument
    cursor,              \* group_sessions_by_date: the position of the running loop
    by_date,             \* group_sessions_by_date: by_date (key order, buckets)
    encoded,             \* decode_project_dir_name: its argument
    disk,                \* the paths that exist on the filesystem
    parts,               \* decode_project_dir_name: parts
    path_parts,          \* decode_project_dir_name: path_parts
    idx,                 \* decode_project_dir_name: i, counted from 1
    decoded              \* decode_project_dir_name: the returned string

collectVars == <<todo, all_sessions, indexed_session_ids, orphans>>
viewVars == <<matches, out_lines, message_count, lineno>>
groupVars == <<sessions, cursor, by_date>>
decodeVars == <<encoded, disk, parts, path_parts, idx, decoded>>
fsVars == <<indexes, logs, argv>>
vars == <<pc, indexes, logs, argv, stdout, todo, all_sessions,
          indexed_session_ids, orphans, matches, out_lines, message_count,
          lineno, sessions, cursor, by_date, encoded, disk, parts, path_parts, idx,
          decoded>>

----------------------------------------------------------------------------
(* Bounds of the model and constants of the program.                       *)

MaxEntries == 2
MaxLines == 3
MaxSessions == 3
MaxCap == 2

PromptLimit == 100
SummaryPromptLimit == 50
AssistantLimit == 2000
HoursPerDay == 24
DatetimeMin == -17259888

----------------------------------------------------------------------------
(* Python's str and dict operations.                                       *)

Min(a, b) == IF a < b THEN a ELSE b

\* s[:n]
Prefix(s, n) == SubSeq(s, 1, Min(Len(s), n))

\* s[n:]
Suffix(s, n) == SubSeq(s, n + 1, Len(s))

\* s.startswith(p)
StartsWith(s, p) == Len(s) >= Len(p) /\ SubSeq(s, 1, Len(p)) = p

\* needle in hay
Contains(hay, needle) ==
    \E k \in 0..(Len(hay) - Len(needle)) : SubSeq(hay, k + 1, k + Len(needle)) = needle

\* s.replace(old, new), old not empty: every occurrence, left to right
RECURSIVE Replace(_, _, _)
Replace(s, old, new) ==
    IF s = <<>> THEN <<>>
    ELSE IF StartsWith(s, old) THEN new \o Replace(Suffix(s, Len(old)), old, new)
    ELSE <<Head(s)>> \o Replace(Tail(s), old, new)

\* s.split(sep), sep one character: the list of the pieces
RECURSIVE Split(_, _)
Split(s, sep) ==
    IF \A k \in 1..Len(s) : s[k] # sep THEN <<s>>
    ELSE LET k == CHOOSE j \in 1..Len(s) : s[j] = sep /\ \A m \in 1..(j - 1) : s[m] # sep
         IN  <<SubSeq(s, 1, k - 1)>> \o Split(Suffix(s, k), sep)

\* sep.join(list)
RECURSIVE Join(_, _)
Join(list, sep) ==
    IF list = <<>> THEN <<>>
    ELSE IF Len(list) = 1 THEN list[1]
    ELSE list[1] \o sep \o Join(Tail(list), sep)

IsSpace(c) == c \in {" ", "\n", "\t"}

\* s.strip()
RECURSIVE Strip(_)
Strip(s) ==
    IF s = <<>> THEN <<>>
    ELSE IF IsSpace(Head(s)) THEN Strip(Tail(s))
    ELSE IF IsSpace(s[Len(s)]) THEN Strip(SubSeq(s, 1, Len(s) - 1))
    ELSE s

\* o.get(k, d)
Get(o, k, d) == IF k \in DOMAIN o THEN o[k] ELSE d

None == <<>>
Some(v) == <<v>>

\* n copies of the character c
Chars(c, n) == [k \in 1..n |-> c]

----------------------------------------------------------------------------
(* Paths.                                                                  *)

ProjectsDir == <<"/", "r">>
JsonlSuffix == <<".", "j", "s", "o", "n", "l">>
AgentPrefix == <<"a", "g", "e", "n", "t", "-">>
SubagentsWord == <<"s", "u", "b", "a", "g", "e", "n", "t", "s">>

\* str(jsonl_file) of the file `name` in the project directory `dir`
PathStr(f) == ProjectsDir \o <<"/">> \o f.dir \o <<"/">> \o f.name

\* Path.stem: the name up to its last dot, when that dot is neither the first
\* nor the last character
Stem(name) ==
    LET dots == {k \in 1..Len(name) : name[k] = "."}
        last == CHOOSE k \in dots : \A m \in dots : m <= k
    IN  IF dots # {} /\ 1 < last /\ last < Len(name) THEN SubSeq(name, 1, last - 1)
        ELSE name

\* The test of lines 78 and 317: a sub-agent file
IsSubagentFile(f) ==
    Contains(PathStr(f), SubagentsWord) \/ StartsWith(f.name, AgentPrefix)

----------------------------------------------------------------------------
(* JSON values, tagged by their Python type after json.load.               *)

JStr(s) == [t |-> "str", s |-> s]
JObj(o) == [t |-> "obj", o |-> o]
JList(v) == [t |-> "list", v |-> v]
JNum(n) == [t |-> "num", n |-> n]

\* A line of a log file: text json.loads rejects, or the value it returns
BadLine == [valid |-> FALSE]
GoodLine(v) == [valid |-> TRUE, v |-> v]

----------------------------------------------------------------------------
(* Timestamps.  An ISO-8601 string is a sequence of tokens: a date-time    *)
(* token, optionally followed by a UTC-offset token or the letter Z;       *)
(* anything else is not ISO-8601.                                          *)

TokDT(w) == [k |-> "dt", n |-> w]
TokOff(h) == [k |-> "off", n |-> h]
TokZ == [k |-> "Z", n |-> 0]
TokJunk == [k |-> "junk", n |-> 0]

Naive(w) == [wall |-> w, off |-> None]
Aware(w, h) == [wall |-> w, off |-> Some(h)]

\* created_str.replace("Z", "+00:00")
ReplaceZ(str) == [k \in 1..Len(str) |-> IF str[k] = TokZ THEN TokOff(0) ELSE str[k]]

\* datetime.fromisoformat: [raised, value]
FromIsoFormat(str) ==
    IF Len(str) = 1 /\ str[1].k = "dt"
    THEN [raised |-> FALSE, value |-> Naive(str[1].n)]
    ELSE IF Len(str) = 2 /\ str[1].k = "dt" /\ str[2].k = "off"
    THEN [raised |-> FALSE, value |-> Aware(str[1].n, str[2].n)]
    ELSE [raised |-> TRUE, value |-> Naive(0)]

\* Lines 45-52: the created field of an index entry
ParseCreated(created_str) ==
    IF created_str # <<>>
    THEN LET r == FromIsoFormat(ReplaceZ(created_str))
         IN  IF r.raised THEN None ELSE Some(r.value)
    ELSE None

\* The machine's local UTC offset
LocalOffsets == {1}
LocalOffset == CHOOSE h \in LocalOffsets : TRUE

\* datetime.fromtimestamp(st_mtime): the naive local time of an epoch instant
FromTimestamp(mtime) == Naive(mtime + LocalOffset)

\* Lines 139-147
normalize_datetime(dt) ==
    IF dt = None THEN None
    ELSE IF dt[1].off # None THEN Some(Naive(dt[1].wall - dt[1].off[1]))
    ELSE dt

----------------------------------------------------------------------------
(* parse_session_index.                                                    *)

\* Lines 54-64: the session of one entry
EntrySession(entry, data) ==
    [session_id |-> Get(entry, "sessionId", <<>>),
     summary |-> Get(entry, "summary", <<"No summary">>),
     first_prompt |-> Prefix(Get(entry, "firstPrompt", <<>>), PromptLimit),
     message_count |-> Get(entry, "messageCount", 0),
     created |-> ParseCreated(Get(entry, "created", <<>>)),
     modified |-> Get(entry, "modified", <<>>),
     project_path |-> Get(entry, "projectPath", Get(data, "originalPath", <<>>)),
     git_branch |-> Get(entry, "gitBranch", <<>>),
     full_path |-> Get(entry, "fullPath", <<>>)]

\* IndexSessions leaving out the entries whose created string does not parse
IndexSessionsSkipUnparsed(data) ==
    LET entries == Get(data, "entries", <<>>)
        parses(e) == Get(e, "created", <<>>) = <<>>
                     \/ ParseCreated(Get(e, "created", <<>>)) # None
        kept == SelectSeq(entries, parses)
    IN  [k \in 1..Len(kept) |-> EntrySession(kept[k], data)]

\* Lines 42-66: one session per entry, in the order of the entries
IndexSessions(data) ==
    LET entries == Get(data, "entries", <<>>)
    IN  [k \in 1..Len(entries) |-> EntrySession(entries[k], data)]

\* IndexErrorCaught with FileNotFoundError left out of the except clause
IndexErrorCaughtJsonOnly(kind) == kind = "malformed"

\* Line 67: the failures of open() and json.load() that the except clause takes
IndexErrorCaught(kind) == kind \in {"malformed", "missing"}

\* Lines 36-69: [raised, sessions, warned].  A file is "ok" (json.load returns
\* data), "malformed" (JSONDecodeError), "missing" (FileNotFoundError) or
\* "denied" (PermissionError)
parse_session_index(file) ==
    IF file.kind = "ok"
    THEN [raised |-> FALSE, sessions |-> IndexSessions(file.data), warned |-> FALSE]
    ELSE IF IndexErrorCaught(file.kind)
    THEN [raised |-> FALSE, sessions |-> <<>>, warned |-> TRUE]
    ELSE [raised |-> TRUE, sessions |-> <<>>, warned |-> FALSE]

----------------------------------------------------------------------------
(* find_orphan_sessions.                                                   *)

\* Lines 95-96: whether a record with a message ends the scan
PromptFound(msg) == Get(msg, "content", JStr(<<>>)).t = "str"

\* Lines 89-100: [raised, prompt] of the lines of one file
RECURSIVE ScanFirstPrompt(_)
ScanFirstPrompt(lines) ==
    IF lines = <<>> THEN [raised |-> FALSE, prompt |-> <<>>]
    ELSE LET line == Head(lines) IN
         IF ~line.valid THEN ScanFirstPrompt(Tail(lines))
         ELSE IF line.v.t = "num" THEN [raised |-> TRUE, prompt |-> <<>>]
         ELSE IF line.v.t = "list" THEN ScanFirstPrompt(Tail(lines))
         ELSE IF "message" \notin DOMAIN line.v.o THEN ScanFirstPrompt(Tail(lines))
         ELSE LET msg == line.v.o["message"] IN
              IF msg.t # "obj" THEN [raised |-> TRUE, prompt |-> <<>>]
              ELSE IF PromptFound(msg.o)
              THEN [raised |-> FALSE,
                    prompt |-> Prefix(Get(msg.o, "content", JStr(<<>>)).s, PromptLimit)]
              ELSE ScanFirstPrompt(Tail(lines))

\* Lines 102-110: the session of an orphan file
OrphanSession(f, file, first_prompt) ==
    [session_id |-> Stem(f.name),
     summary |-> IF first_prompt # <<>>
                 THEN <<"Unindexed session: ">> \o Prefix(first_prompt, SummaryPromptLimit)
                      \o <<"...">>
                 ELSE <<"Unindexed session">>,
     first_prompt |-> first_prompt,
     message_count |-> 0,
     created |-> Some(FromTimestamp(file.mtime)),
     project_path |-> Replace(ProjectsDir \o <<"/">> \o f.dir,
                              ProjectsDir \o <<"/">>, <<>>),
     full_path |-> PathStr(f)]

\* Line 82: whether a file that is no sub-agent file is taken as an orphan
IsOrphan(f, indexed) == Stem(f.name) \notin indexed

\* SkipFile without the test of the path
SkipFileNameOnly(f) == StartsWith(f.name, AgentPrefix)

\* Lines 77-79: whether the scan passes over a file
SkipFile(f) == IsSubagentFile(f)

\* Lines 76-112 for one file: the sessions it adds to orphans, and the warning
OrphanOf(f, file, indexed) ==
    IF SkipFile(f) \/ ~IsOrphan(f, indexed) THEN [add |-> <<>>, warned |-> FALSE]
    ELSE LET r == ScanFirstPrompt(file.lines)
         IN  IF r.raised THEN [add |-> <<>>, warned |-> TRUE]
             ELSE [add |-> <<OrphanSession(f, file, r.prompt)>>, warned |-> FALSE]

\* The order in which glob("*/*.jsonl") yields the candidate files: directory
\* order, which is fixed for a given filesystem
LogName(stem) == stem \o JsonlSuffix
ScanOrder ==
    << [dir |-> <<"p">>, name |-> LogName(<<"a">>)],
       [dir |-> <<"p">>, name |-> LogName(<<"a", "b">>)],
       [dir |-> <<"p">>, name |-> LogName(AgentPrefix \o <<"a">>)],
       [dir |-> <<"q">>, name |-> LogName(<<"a">>)],
       [dir |-> SubagentsWord, name |-> LogName(<<"c">>)] >>

\* projects_dir.glob("*/*.jsonl"): the files present, in scan order
RECURSIVE GlobFrom(_, _)
GlobFrom(files, k) ==
    IF k > Len(ScanOrder) THEN <<>>
    ELSE (IF ScanOrder[k] \in DOMAIN files THEN <<ScanOrder[k]>> ELSE <<>>)
         \o GlobFrom(files, k + 1)
GlobLogs(files) == GlobFrom(files, 1)

\* Lines 72-114: [sessions, warnings]
RECURSIVE OrphansFrom(_, _, _)
OrphansFrom(files, globbed, indexed) ==
    IF globbed = <<>> THEN [sessions |-> <<>>, warnings |-> <<>>]
    ELSE LET f == Head(globbed)
             r == OrphanOf(f, files[f], indexed)
             rest == OrphansFrom(files, Tail(globbed), indexed)
         IN  [sessions |-> r.add \o rest.sessions,
              warnings |-> (IF r.warned THEN <<[k |-> "orphan_warning", s |-> PathStr(f)]>>
                            ELSE <<>>) \o rest.warnings]
find_orphan_sessions(files, indexed) == OrphansFrom(files, GlobLogs(files), indexed)

----------------------------------------------------------------------------
(* collect_all_sessions.                                                   *)

\* Lines 128-129: the identifiers one parsed index adds to the indexed set
IndexedIds(parsed) == {parsed[k].session_id : k \in 1..Len(parsed)}

\* Lines 122-126: the empty accumulators and the list of index files
CollectStart ==
    /\ pc = "collect"
    /\ pc' = "indexes"
    /\ todo' = DOMAIN indexes
    /\ all_sessions' = <<>>
    /\ indexed_session_ids' = {}
    /\ UNCHANGED <<orphans, stdout, fsVars, viewVars, groupVars, decodeVars>>

\* CollectIndex with the indexed set replaced by the identifiers of the index
\* file just parsed
CollectIndexPerIndex ==
    /\ pc = "indexes"
    /\ \E p \in todo :
         LET r == parse_session_index(indexes[p]) IN
         /\ todo' = todo \ {p}
         /\ IF r.raised
            THEN /\ pc' = "raised"
                 /\ UNCHANGED <<all_sessions, indexed_session_ids, stdout>>
            ELSE /\ pc' = pc
                 /\ indexed_session_ids' = IndexedIds(r.sessions)
                 /\ all_sessions' = all_sessions \o r.sessions
                 /\ stdout' = IF r.warned
                              THEN Append(stdout, [k |-> "index_warning", s |-> p])
                              ELSE stdout
    /\ UNCHANGED <<orphans, fsVars, viewVars, groupVars, decodeVars>>

\* Lines 126-130: one index file, any of those find_session_indexes listed
CollectIndex ==
    /\ pc = "indexes"
    /\ \E p \in todo :
         LET r == parse_session_index(indexes[p]) IN
         /\ todo' = todo \ {p}
         /\ IF r.raised
            THEN /\ pc' = "raised"
                 /\ UNCHANGED <<all_sessions, indexed_session_ids, stdout>>
            ELSE /\ pc' = pc
                 /\ indexed_session_ids' = indexed_session_ids \cup IndexedIds(r.sessions)
                 /\ all_sessions' = all_sessions \o r.sessions
                 /\ stdout' = IF r.warned
                              THEN Append(stdout, [k |-> "index_warning", s |-> p])
                              ELSE stdout
    /\ UNCHANGED <<orphans, fsVars, viewVars, groupVars, decodeVars>>

\* Lines 132-136: the orphans, appended; the list is returned
CollectOrphans ==
    /\ pc = "indexes"
    /\ todo = {}
    /\ LET r == find_orphan_sessions(logs, indexed_session_ids) IN
         /\ orphans' = r.sessions
         /\ all_sessions' = all_sessions \o r.sessions
         /\ stdout' = stdout \o r.warnings
    /\ pc' = "collected"
    /\ UNCHANGED <<todo, indexed_session_ids, fsVars, viewVars, groupVars, decodeVars>>

NextCollect == CollectStart \/ CollectIndex \/ CollectOrphans

----------------------------------------------------------------------------
(* find_session_file and view_session.                                     *)

\* Line 319: whether a file that is no sub-agent file matches the identifier
StemMatches(session_id, f) == Contains(Stem(f.name), session_id)

\* Lines 315-320: matches
RECURSIVE MatchesFrom(_, _)
MatchesFrom(session_id, globbed) ==
    IF globbed = <<>> THEN <<>>
    ELSE (IF ~SkipFile(Head(globbed)) /\ StemMatches(session_id, Head(globbed))
          THEN <<Head(globbed)>> ELSE <<>>)
         \o MatchesFrom(session_id, Tail(globbed))

\* FoundFile returning the first of several matches
FoundFileFirst(found) == IF Len(found) >= 1 THEN Some(found[1]) ELSE None

\* Lines 322-329: the file find_session_file returns, None when none or several
FoundFile(found) == IF Len(found) = 1 THEN Some(found[1]) ELSE None

\* Lines 310-329: the matches, and the candidates printed when there are several
find_session_file ==
    /\ pc = "view"
    /\ LET found == MatchesFrom(argv.view, GlobLogs(logs)) IN
         /\ matches' = found
         /\ stdout' = IF Len(found) > 1
                      THEN stdout \o <<[k |-> "multiple", s |-> argv.view]>>
                           \o [n \in 1..Len(found) |->
                                 [k |-> "candidate", s |-> Stem(found[n].name)]]
                      ELSE stdout
    /\ pc' = "found"
    /\ UNCHANGED <<out_lines, message_count, lineno, fsVars, collectVars, groupVars,
                   decodeVars>>

ToolUseLimit == 80
ToolResultLimit == 200

\* Lines 343-361: the summary of a tool_use block
ToolUsePart(block) ==
    LET tool_name == Get(block, "name", <<"unknown">>)
        tool_input == Get(block, "input", <<>>)
        arg(label, key) == <<label>> \o Get(tool_input, key, <<"?">>) \o <<"]">>
    IN  IF tool_name = <<"Read">> THEN arg("[Reading: ", "file_path")
        ELSE IF tool_name = <<"Edit">> THEN arg("[Editing: ", "file_path")
        ELSE IF tool_name = <<"Write">> THEN arg("[Writing: ", "file_path")
        ELSE IF tool_name = <<"Bash">>
        THEN <<"[Running: ">> \o Prefix(Get(tool_input, "command", <<>>), ToolUseLimit)
             \o <<"]">>
        ELSE IF tool_name = <<"Grep">> THEN arg("[Searching: ", "pattern")
        ELSE IF tool_name = <<"Glob">> THEN arg("[Finding: ", "pattern")
        ELSE <<"[Tool: ">> \o tool_name \o <<"]">>

\* Lines 340-368: the parts one block of a content list adds
BlockParts(block) ==
    IF block.t = "str" THEN <<block.s>>
    ELSE IF block.t # "obj" THEN <<>>
    ELSE LET type == Get(block.o, "type", <<>>) IN
         IF type = <<"text">> THEN <<Get(block.o, "text", <<>>)>>
         ELSE IF type = <<"tool_use">> THEN <<ToolUsePart(block.o)>>
         ELSE IF type = <<"tool_result">>
         THEN LET result == Get(block.o, "content", JStr(<<>>)) IN
              <<(<<"[Result: ">>
                 \o (IF result.t # "str" THEN <<"repr">>
                     ELSE IF Len(result.s) > ToolResultLimit
                     THEN Prefix(result.s, ToolResultLimit) \o <<"...">>
                     ELSE result.s)
                 \o <<"]">>)>>
         ELSE <<>>

RECURSIVE ContentParts(_)
ContentParts(blocks) ==
    IF blocks = <<>> THEN <<>>
    ELSE BlockParts(Head(blocks)) \o ContentParts(Tail(blocks))

\* Lines 332-370
extract_message_content(content) ==
    IF content.t = "str" THEN content.s
    ELSE IF content.t = "list" THEN Join(ContentParts(content.v), <<"\n">>)
    ELSE <<"repr">>

\* Lines 373-384: the result for no file, or the header of the transcript
view_open ==
    /\ pc = "found"
    /\ IF FoundFile(matches) = None
       THEN /\ out_lines' = <<[k |-> "notfound", s |-> argv.view]>>
            /\ pc' = "done"
            /\ UNCHANGED <<message_count, lineno>>
       ELSE /\ out_lines' = << [k |-> "title", s |-> Stem(matches[1].name)],
                               [k |-> "file", s |-> PathStr(matches[1])],
                               [k |-> "rule", s |-> <<>>] >>
            /\ message_count' = 0
            /\ lineno' = 1
            /\ pc' = "reading"
    /\ UNCHANGED <<matches, stdout, fsVars, collectVars, groupVars, decodeVars>>

\* CapReached with the comparison off by one
CapReachedLate(max_messages, count) == max_messages > 0 /\ count > max_messages

\* Line 387: whether the cap ends the loop before the next line is read
CapReached(max_messages, count) == max_messages > 0 /\ count >= max_messages

\* Lines 405-416: the section of a counted message
Section(role, content) ==
    IF role = <<"user">>
    THEN << [k |-> "user", s |-> <<>>], [k |-> "content", s |-> content],
            [k |-> "blank", s |-> <<>>] >>
    ELSE IF role = <<"assistant">>
    THEN << [k |-> "assistant", s |-> <<>>],
            [k |-> "content",
             s |-> IF Len(content) > AssistantLimit
                   THEN Prefix(content, AssistantLimit) \o <<"\n\n... (truncated)">>
                   ELSE content],
            [k |-> "blank", s |-> <<>>] >>
    ELSE <<>>

\* Lines 386-419: one iteration of the loop over the lines of the file
view_line ==
    /\ pc = "reading"
    /\ lineno <= Len(logs[matches[1]].lines)
    /\ LET line == logs[matches[1]].lines[lineno] IN
       IF CapReached(argv.max_messages, message_count)
       THEN /\ out_lines' = Append(out_lines, [k |-> "truncated", s |-> <<>>])
            /\ pc' = "closed"
            /\ UNCHANGED <<message_count, lineno>>
       ELSE IF ~line.valid \/ line.v.t = "list"
               \/ (line.v.t = "obj" /\ "message" \notin DOMAIN line.v.o)
       THEN /\ lineno' = lineno + 1
            /\ UNCHANGED <<out_lines, message_count, pc>>
       ELSE IF line.v.t # "obj" \/ line.v.o["message"].t # "obj"
       THEN /\ pc' = "raised"
            /\ UNCHANGED <<out_lines, message_count, lineno>>
       ELSE LET msg == line.v.o["message"].o
                role == Get(msg, "role", <<"unknown">>)
                content == extract_message_content(Get(msg, "content", JStr(<<>>)))
            IN  /\ lineno' = lineno + 1
                /\ pc' = pc
                /\ IF Strip(content) = <<>>
                   THEN UNCHANGED <<out_lines, message_count>>
                   ELSE /\ message_count' = message_count + 1
                        /\ out_lines' = out_lines \o Section(role, content)
    /\ UNCHANGED <<matches, stdout, fsVars, collectVars, groupVars, decodeVars>>

\* Lines 421-424: after the loop
view_return ==
    /\ \/ pc = "closed"
       \/ pc = "reading" /\ lineno > Len(logs[matches[1]].lines)
    /\ out_lines' = IF message_count = 0
                    THEN Append(out_lines, [k |-> "nomsg", s |-> <<>>])
                    ELSE out_lines
    /\ pc' = "done"
    /\ UNCHANGED <<matches, message_count, lineno, stdout, fsVars, collectVars,
                   groupVars, decodeVars>>

NextView == find_session_file \/ view_open \/ view_line \/ view_return

----------------------------------------------------------------------------
(* group_sessions_by_date.  A dict is [keys, buckets]: its keys in         *)
(* insertion order and the list under each key.  A date key is             *)
(* [unknown, day]: the literal "Unknown", or the day of "%Y-%m-%d".        *)

EmptyDict == [keys |-> <<>>, buckets |-> <<>>]
UnknownKey == [unknown |-> TRUE, day |-> 0]

\* Lines 155-159: session["created"].strftime("%Y-%m-%d"), or "Unknown"
DateKey(session) ==
    IF session.created # None
    THEN [unknown |-> FALSE, day |-> session.created[1].wall \div HoursPerDay]
    ELSE UnknownKey

\* by_date[key].append(session) on a defaultdict(list)
DictAppend(d, key, session) ==
    IF key \in DOMAIN d.buckets
    THEN [d EXCEPT !.buckets[key] = Append(@, session)]
    ELSE [keys |-> Append(d.keys, key), buckets |-> (key :> <<session>>) @@ d.buckets]

\* Line 164: the sort key of a session
SortKey(session) ==
    LET n == normalize_datetime(session.created)
    IN  IF n = None THEN DatetimeMin ELSE n[1].wall

\* InsertSorted putting an element before those of the same key
InsertSortedBeforeEqual(sorted, x) ==
    LET before == {k \in 1..Len(sorted) : SortKey(sorted[k]) < SortKey(x)}
        n == Cardinality(before)
    IN  SubSeq(sorted, 1, n) \o <<x>> \o SubSeq(sorted, n + 1, Len(sorted))

\* Where list.sort puts an element among those already in order: after every
\* element whose key is not greater
InsertSorted(sorted, x) ==
    LET before == {k \in 1..Len(sorted) : SortKey(sorted[k]) <= SortKey(x)}
        n == Cardinality(before)
    IN  SubSeq(sorted, 1, n) \o <<x>> \o SubSeq(sorted, n + 1, Len(sorted))

\* Lines 163-165: list.sort(key=...), a stable sort
RECURSIVE SortedFrom(_, _)
SortedFrom(list, sorted) ==
    IF list = <<>> THEN sorted
    ELSE SortedFrom(Tail(list), InsertSorted(sorted, Head(list)))
SortByTime(list) == SortedFrom(list, <<>>)

\* Whether one date key string sorts before another: digits before "Unknown"
KeyLess(a, b) ==
    IF a.unknown THEN FALSE
    ELSE IF b.unknown THEN TRUE
    ELSE a.day < b.day

\* Line 167: the keys in sorted order
RECURSIVE SortedKeys(_)
SortedKeys(S) ==
    IF S = {} THEN <<>>
    ELSE LET least == CHOOSE a \in S : \A b \in S \ {a} : KeyLess(a, b)
         IN  <<least>> \o SortedKeys(S \ {least})

\* Line 152
GroupStart ==
    /\ pc = "group"
    /\ by_date' = EmptyDict
    /\ cursor' = 1
    /\ pc' = "bucketing"
    /\ UNCHANGED <<sessions, stdout, fsVars, collectVars, viewVars, decodeVars>>

\* Lines 154-159: one session
GroupAppend ==
    /\ pc = "bucketing"
    /\ cursor <= Len(sessions)
    /\ by_date' = DictAppend(by_date, DateKey(sessions[cursor]), sessions[cursor])
    /\ cursor' = cursor + 1
    /\ UNCHANGED <<pc, sessions, stdout, fsVars, collectVars, viewVars, decodeVars>>

\* Line 162: the second loop starts when the first has ended
GroupSortStart ==
    /\ pc = "bucketing"
    /\ cursor > Len(sessions)
    /\ cursor' = 1
    /\ pc' = "sorting"
    /\ UNCHANGED <<sessions, by_date, stdout, fsVars, collectVars, viewVars, decodeVars>>

\* Lines 162-165: one bucket, in the dict's order
GroupSort ==
    /\ pc = "sorting"
    /\ cursor <= Len(by_date.keys)
    /\ by_date' = [by_date EXCEPT !.buckets[by_date.keys[cursor]] = SortByTime(@)]
    /\ cursor' = cursor + 1
    /\ UNCHANGED <<pc, sessions, stdout, fsVars, collectVars, viewVars, decodeVars>>

\* Line 167
GroupReturn ==
    /\ pc = "sorting"
    /\ cursor > Len(by_date.keys)
    /\ by_date' = [by_date EXCEPT !.keys = SortedKeys(DOMAIN by_date.buckets)]
    /\ pc' = "grouped"
    /\ UNCHANGED <<sessions, cursor, stdout, fsVars, collectVars, viewVars, decodeVars>>

NextGroup == GroupStart \/ GroupAppend \/ GroupSortStart \/ GroupSort \/ GroupReturn

----------------------------------------------------------------------------
(* decode_project_dir_name.                                                *)

\* Path(test_path).exists()
Exists(path) == path \in disk

\* "/" + "/".join(path_parts)
SlashJoin(list) == <<"/">> \o Join(list, <<"/">>)

\* EncodedParts without the slice that drops the leading "-"
EncodedPartsKeepLead(str) == Split(str, "-")

\* Line 177: encoded[1:].split("-")
EncodedParts(str) == Split(Suffix(str, 1), "-")

\* Lines 173-181
DecodeStart ==
    /\ pc = "decode"
    /\ IF ~StartsWith(encoded, <<"-">>)
       THEN /\ decoded' = Some(encoded)
            /\ pc' = "decoded"
            /\ UNCHANGED <<parts, path_parts, idx>>
       ELSE /\ parts' = EncodedParts(encoded)
            /\ path_parts' = <<>>
            /\ idx' = 1
            /\ pc' = "decoding"
            /\ UNCHANGED decoded
    /\ UNCHANGED <<encoded, disk, stdout, fsVars, collectVars, viewVars, groupVars>>

\* Lines 182-194: one iteration of the while loop
DecodeStep ==
    /\ pc = "decoding"
    /\ idx <= Len(parts)
    /\ LET combined == parts[idx] \o <<"_">> \o parts[idx + 1] IN
       IF idx + 1 <= Len(parts) /\ Exists(SlashJoin(Append(path_parts, combined)))
       THEN /\ path_parts' = Append(path_parts, combined)
            /\ idx' = idx + 2
       ELSE /\ path_parts' = Append(path_parts, parts[idx])
            /\ idx' = idx + 1
    /\ UNCHANGED <<pc, encoded, disk, parts, decoded, stdout, fsVars, collectVars,
                   viewVars, groupVars>>

\* Line 196
DecodeReturn ==
    /\ pc = "decoding"
    /\ idx > Len(parts)
    /\ decoded' = Some(SlashJoin(path_parts))
    /\ pc' = "decoded"
    /\ UNCHANGED <<encoded, disk, parts, path_parts, idx, stdout, fsVars, collectVars,
                   viewVars, groupVars>>

NextDecode == DecodeStart \/ DecodeStep \/ DecodeReturn

----------------------------------------------------------------------------
(* The inputs of the model.                                                *)

\* The sequences over S of length at most n
SeqsUpTo(S, n) == UNION {[1..k -> S] : k \in 0..n}

IdleCollect ==
    /\ todo = {}
    /\ all_sessions = <<>>
    /\ indexed_session_ids = {}
    /\ orphans = <<>>
IdleView ==
    /\ matches = <<>>
    /\ out_lines = <<>>
    /\ message_count = 0
    /\ lineno = 0
IdleGroup ==
    /\ sessions = <<>>
    /\ cursor = 0
    /\ by_date = EmptyDict
IdleDecode ==
    /\ encoded = <<>>
    /\ disk = {}
    /\ parts = <<>>
    /\ path_parts = <<>>
    /\ idx = 0
    /\ decoded = None
NoArgs == [view |-> <<>>, max_messages |-> 0]

\* Index entries: one with a timestamp and a count, one with a session
\* identifier only, one that lists a sub-agent log file
IndexEntries ==
    { ("sessionId" :> <<"a">>) @@ ("created" :> <<TokDT(10), TokZ>>)
        @@ ("messageCount" :> 5) @@ ("summary" :> <<"A">>),
      ("sessionId" :> <<"a", "b">>),
      ("sessionId" :> AgentPrefix \o <<"a">>)
        @@ ("fullPath" :> PathStr([dir |-> <<"p">>, name |-> LogName(AgentPrefix \o <<"a">>)])) }

IndexData(entries) == ("entries" :> entries) @@ ("originalPath" :> <<"/", "w">>)
OkIndex(entries) == [kind |-> "ok", data |-> IndexData(entries)]
BadIndex(kind) == [kind |-> kind, data |-> <<>>]

IndexFiles(E) ==
    {OkIndex(es) : es \in SeqsUpTo(E, MaxEntries)}
    \cup {BadIndex(k) : k \in {"malformed", "missing", "denied"}}

\* The project directories that may hold an index file
IndexDirs == {<<"p">>, <<"q">>}

UserLine(text) ==
    GoodLine(JObj("message" :> JObj(("role" :> <<"user">>) @@ ("content" :> JStr(text)))))
AssistantLine(text) ==
    GoodLine(JObj("message" :> JObj(("role" :> <<"assistant">>)
                                    @@ ("content" :> JStr(text)))))

\* The lines of every log file of the filesystems of Spec
MainLines == <<UserLine(<<"h", "i">>), AssistantLine(<<"o", "k">>)>>
LogFile(lines) == [mtime |-> 30, lines |-> lines]

LogSets(contents) ==
    UNION {[D -> {LogFile(c) : c \in contents}] : D \in SUBSET {ScanOrder[k] : k \in 1..Len(ScanOrder)}}

IndexSets(E) == UNION {[D -> IndexFiles(E)] : D \in SUBSET IndexDirs}

\* The identifiers looked up: part of the stem of several files, the stem of
\* one, the stem of a file in the sub-agent directory only, the stem of none
SearchIds == {<<"a">>, <<"a", "b">>, <<"c">>, <<"z">>}

----------------------------------------------------------------------------
(* Spec: one call of collect_all_sessions or of view_session on a          *)
(* filesystem of index files and log files.                                *)

InitCollect ==
    /\ pc = "collect"
    /\ indexes \in IndexSets(IndexEntries)
    /\ logs \in LogSets({MainLines})
    /\ argv = NoArgs

InitView ==
    /\ pc = "view"
    /\ indexes \in {<<>>, <<"p">> :> OkIndex(<<("sessionId" :> AgentPrefix \o <<"a">>)>>)}
    /\ logs \in LogSets({MainLines})
    /\ argv \in [view : SearchIds, max_messages : 0..MaxCap]

Init ==
    /\ InitCollect \/ InitView
    /\ stdout = <<>>
    /\ IdleCollect /\ IdleView /\ IdleGroup /\ IdleDecode

Next == NextCollect \/ NextView

Spec == Init /\ [][Next]_vars

----------------------------------------------------------------------------
(* SpecIndex: collect_all_sessions on one index file whose entries vary in *)
(* their created and firstPrompt fields, and no log file.                  *)

CreatedStrings ==
    { <<>>, <<TokDT(10)>>, <<TokDT(10), TokZ>>, <<TokDT(10), TokOff(2)>>,
      <<TokJunk>>, <<TokDT(10), TokJunk>>, <<TokZ>> }

PromptStrings ==
    {Chars("x", 3), Chars("x", PromptLimit), Chars("y", PromptLimit) \o <<"z">>}

RichEntries ==
    {("sessionId" :> <<"a">>) @@ ("created" :> c) @@ ("firstPrompt" :> f) :
        c \in CreatedStrings, f \in PromptStrings}
    \cup {("sessionId" :> <<"a">>) @@ ("created" :> c) : c \in CreatedStrings}
    \cup {("sessionId" :> <<"a">>), ("summary" :> <<"A">>)}

InitIndex ==
    /\ pc = "collect"
    /\ indexes \in {<<"p">> :> f : f \in IndexFiles(RichEntries)}
    /\ logs = <<>>
    /\ argv = NoArgs
    /\ stdout = <<>>
    /\ IdleCollect /\ IdleView /\ IdleGroup /\ IdleDecode

SpecIndex == InitIndex /\ [][NextCollect]_vars

----------------------------------------------------------------------------
(* SpecOrphan: collect_all_sessions on one log file whose lines vary, and  *)
(* an index file of another project that does not list it.                 *)

MessageLine(msg) == GoodLine(JObj("message" :> msg))

OrphanLines ==
    { BadLine,
      GoodLine(JNum(5)),
      GoodLine(JList(<<>>)),
      GoodLine(JObj("type" :> JStr(<<"summary">>))),
      MessageLine(JObj("role" :> <<"user">>)),
      MessageLine(JObj(("role" :> <<"user">>) @@ ("content" :> JList(<<>>)))),
      MessageLine(JStr(<<"h", "i">>)),
      UserLine(<<>>),
      UserLine(<<"h", "i">>),
      UserLine(Chars("y", PromptLimit) \o <<"z">>) }

OrphanLog == [dir |-> <<"p">>, name |-> LogName(<<"a">>)]

InitOrphan ==
    /\ pc = "collect"
    /\ indexes \in {<<"q">> :> OkIndex(es) : es \in {<<>>, <<("sessionId" :> <<"a", "b">>)>>}}
    /\ logs \in {OrphanLog :> LogFile(ls) : ls \in SeqsUpTo(OrphanLines, MaxLines)}
    /\ argv = NoArgs
    /\ stdout = <<>>
    /\ IdleCollect /\ IdleView /\ IdleGroup /\ IdleDecode

SpecOrphan == InitOrphan /\ [][NextCollect]_vars

----------------------------------------------------------------------------
(* SpecView: view_session on one log file whose lines vary.                *)

TextBlock(text) == JObj(("type" :> <<"text">>) @@ ("text" :> text))

ViewLines ==
    { BadLine,
      GoodLine(JNum(5)),
      GoodLine(JObj("type" :> JStr(<<"summary">>))),
      UserLine(<<"h", "i">>),
      UserLine(<<" ", "\n">>),
      AssistantLine(<<"o", "k">>),
      MessageLine(JObj(("role" :> <<"system">>) @@ ("content" :> JStr(<<"s">>)))),
      MessageLine(JObj(("role" :> <<"assistant">>)
                       @@ ("content" :> JList(<<TextBlock(<<"t">>)>>)))) }

InitViewOne ==
    /\ pc = "view"
    /\ indexes = <<>>
    /\ logs \in {OrphanLog :> LogFile(ls) : ls \in SeqsUpTo(ViewLines, MaxLines)}
    /\ argv \in [view : {<<"a">>}, max_messages : 0..MaxCap]
    /\ stdout = <<>>
    /\ IdleCollect /\ IdleView /\ IdleGroup /\ IdleDecode

SpecView == InitViewOne /\ [][NextView]_vars

----------------------------------------------------------------------------
(* SpecGroup: group_sessions_by_date on a list of sessions.                *)

\* Timestamps of two days; the second, fourth and fifth are the same instant
CreatedValues ==
    { None, Some(Naive(10)), Some(Aware(10, 0)), Some(Aware(12, 2)), Some(Naive(20)),
      Some(Aware(23, 8)), Some(Aware(25, 2)), Some(Naive(30)) }

\* The k-th session of a list carries the identifier of k characters
GroupInputs ==
    UNION {{[k \in 1..n |-> [session_id |-> Chars("s", k), created |-> c[k]]] :
              c \in [1..n -> CreatedValues]} : n \in 0..MaxSessions}

InitGroup ==
    /\ pc = "group"
    /\ sessions \in GroupInputs
    /\ cursor = 0
    /\ by_date = EmptyDict
    /\ indexes = <<>>
    /\ logs = <<>>
    /\ argv = NoArgs
    /\ stdout = <<>>
    /\ IdleCollect /\ IdleView /\ IdleDecode

SpecGroup == InitGroup /\ [][NextGroup]_vars

----------------------------------------------------------------------------
(* SpecDecode: decode_project_dir_name on a string, on a filesystem.       *)

\* The encoding of a path: every path separator replaced by "-"
EncodePath(path) == Replace(path, <<"/">>, <<"-">>)

SegmentLists ==
    { <<>>, <<<<"a">>>>, <<<<"a">>, <<"b">>>>, <<<<"a">>, <<"b">>, <<"c">>>>,
      <<<<"a", "_", "b">>>>, <<<<"a", "_", "b">>, <<"c">>>>,
      <<<<"a">>, <<"b", "_", "c">>>>, <<<<"a", "-", "b">>>> }

DiskPaths == {SlashJoin(segs) : segs \in SegmentLists}

DecodeInputs ==
    {EncodePath(path) : path \in DiskPaths} \cup {<<"a", "-", "b">>, <<"a", "/", "b">>}

InitDecode ==
    /\ pc = "decode"
    /\ encoded \in DecodeInputs
    /\ disk \in SUBSET DiskPaths
    /\ parts = <<>>
    /\ path_parts = <<>>
    /\ idx = 0
    /\ decoded = None
    /\ indexes = <<>>
    /\ logs = <<>>
    /\ argv = NoArgs
    /\ stdout = <<>>
    /\ IdleCollect /\ IdleView /\ IdleGroup

SpecDecode == InitDecode /\ [][NextDecode]_vars

----------------------------------------------------------------------------
(* Properties of Spec.                                                     *)

Range(seq) == {seq[k] : k \in 1..Len(seq)}

\* The index files json.load reads, and the identifiers their entries list
ReadableIndexes == {p \in DOMAIN indexes : indexes[p].kind = "ok"}
EntriesOf(p) == Get(indexes[p].data, "entries", <<>>)
ListedIn(p) == {Get(e, "sessionId", <<>>) : e \in Range(EntriesOf(p))}
ListedIds == UNION {ListedIn(p) : p \in ReadableIndexes}

\* The sessions of the returned list that come before the orphans
IndexedPart == SubSeq(all_sessions, 1, Len(all_sessions) - Len(orphans))

\* C1: no identifier listed by an entry of any index file is the identifier
\* of an orphan session, and the returned list ends with the orphans.
C1_NoListedIdIsOrphan ==
    /\ \A k \in 1..Len(orphans) : orphans[k].session_id \notin ListedIds
    /\ pc = "collected" =>
         SubSeq(all_sessions, Len(all_sessions) - Len(orphans) + 1, Len(all_sessions))
           = orphans

\* A returned list with orphans, and a log file left out because an index of
\* another project lists its identifier
C1_Witness ==
    /\ pc = "collected"
    /\ orphans # <<>>
    /\ \E f \in DOMAIN logs :
         /\ ~IsSubagentFile(f)
         /\ Stem(f.name) \in ListedIds
         /\ \A p \in ReadableIndexes : Stem(f.name) \in ListedIn(p) => p # f.dir

\* C2: no two sessions of the returned list have the same session_id.
C2_UniqueSessionIds ==
    pc = "collected" =>
      \A i, j \in 1..Len(all_sessions) :
        i < j => all_sessions[i].session_id # all_sessions[j].session_id

\* A log file under a path segment named subagents, or named agent-...
UnderSubagents(f) == f.dir = SubagentsWord
NamedAgent(f) == StartsWith(f.name, AgentPrefix)
SubagentLogs == {f \in DOMAIN logs : UnderSubagents(f) \/ NamedAgent(f)}

PrintedCandidates == {e.s : e \in {x \in Range(stdout) : x.k = "candidate"}}

\* C3 as stated: no session of the returned list is a sub-agent log file, and
\* no match or listed candidate of find_session_file is one.
C3_NoSubagentSession ==
    \A f \in SubagentLogs :
      /\ \A k \in 1..Len(all_sessions) : all_sessions[k].full_path # PathStr(f)
      /\ \A k \in 1..Len(matches) : matches[k] # f

\* C3 amended: no orphan session of the returned list is a sub-agent log
\* file, and no match or listed candidate of find_session_file is one.
C3_NoSubagentOrphanOrMatch ==
    \A f \in SubagentLogs :
      /\ \A k \in 1..Len(orphans) : orphans[k].full_path # PathStr(f)
      /\ \A k \in 1..Len(matches) : matches[k] # f
      /\ PrintedCandidates \subseteq {Stem(g.name) : g \in DOMAIN logs \ SubagentLogs}

\* A returned list with orphans, on a filesystem with a sub-agent log file
\* that no index lists
C3_Witness ==
    /\ pc = "collected"
    /\ orphans # <<>>
    /\ \E f \in SubagentLogs : Stem(f.name) \notin indexed_session_ids

EligibleMatches ==
    {f \in DOMAIN logs \ SubagentLogs : Contains(Stem(f.name), argv.view)}
ViewRan == argv # NoArgs /\ pc # "view"
NotFoundResult == <<[k |-> "notfound", s |-> argv.view]>>

\* C9: with two or more eligible matches every candidate is listed, no file
\* is read and the result is the not-found string; a transcript is rendered
\* only with exactly one eligible match; with none the result is the
\* not-found string and nothing is raised.
C9_AmbiguousLookup ==
    ViewRan =>
      /\ Cardinality(EligibleMatches) >= 2 =>
           /\ PrintedCandidates = {Stem(f.name) : f \in EligibleMatches}
           /\ Cardinality(Range(matches)) = Cardinality(EligibleMatches)
           /\ pc \in {"found", "done"}
           /\ pc = "done" => out_lines = NotFoundResult
      /\ pc \in {"reading", "closed"} \/ (out_lines # <<>> /\ out_lines # NotFoundResult) =>
           Cardinality(EligibleMatches) = 1
      /\ Cardinality(EligibleMatches) = 0 =>
           /\ pc \in {"found", "done"}
           /\ pc = "done" => out_lines = NotFoundResult
           /\ stdout = <<>>

\* The not-found result returned for an identifier that several files match
C9_Witness ==
    /\ pc = "done"
    /\ Cardinality(EligibleMatches) >= 2
    /\ out_lines = NotFoundResult
    /\ Cardinality(PrintedCandidates) >= 2

----------------------------------------------------------------------------
(* Properties of SpecIndex.                                                *)

\* The timestamp an ISO-8601 string stands for, None for any other string
CreatedOf(str) ==
    IF Len(str) = 1 /\ str[1].k = "dt" THEN Some(Naive(str[1].n))
    ELSE IF Len(str) = 2 /\ str[1].k = "dt" /\ str[2].k = "off"
    THEN Some(Aware(str[1].n, str[2].n))
    ELSE IF Len(str) = 2 /\ str[1].k = "dt" /\ str[2].k = "Z"
    THEN Some(Aware(str[1].n, 0))
    ELSE None

\* C6: a readable index file never makes the collection raise, and once it
\* is parsed the list holds one session per entry, in the order of the
\* entries: its first_prompt the first 100 characters of firstPrompt, its
\* created the timestamp of the created string, None when it is none.
C6_EveryEntryOneSession ==
    indexes[<<"p">>].kind = "ok" =>
      /\ pc # "raised"
      /\ (pc = "indexes" /\ todo = {}) \/ pc = "collected" =>
           LET es == EntriesOf(<<"p">>) IN
           /\ Len(all_sessions) = Len(es)
           /\ \A k \in 1..Len(es) :
                LET given == Get(es[k], "firstPrompt", <<>>)
                    got == all_sessions[k].first_prompt
                IN  /\ Len(got) <= 100
                    /\ Len(got) = Min(Len(given), 100)
                    /\ \A n \in 1..Len(got) : got[n] = given[n]
                    /\ all_sessions[k].created = CreatedOf(Get(es[k], "created", <<>>))
                    /\ all_sessions[k].session_id = Get(es[k], "sessionId", <<>>)

\* Two entries parsed: one with a created string that is no timestamp, one
\* with a firstPrompt of more than 100 characters
C6_Witness ==
    /\ pc = "collected"
    /\ indexes[<<"p">>].kind = "ok"
    /\ Len(all_sessions) = 2
    /\ \E k \in 1..2 :
         /\ Get(EntriesOf(<<"p">>)[k], "created", <<>>) = <<TokJunk>>
         /\ all_sessions[k].created = None
    /\ \E k \in 1..2 :
         /\ Len(Get(EntriesOf(<<"p">>)[k], "firstPrompt", <<>>)) > 100
         /\ Len(all_sessions[k].first_prompt) = 100

----------------------------------------------------------------------------
(* Properties of SpecOrphan.                                               *)

\* Whether a line is a record with a message whose content is a plain string
HasStringContent(line) ==
    /\ line.valid
    /\ line.v.t = "obj"
    /\ "message" \in DOMAIN line.v.o
    /\ line.v.o["message"].t = "obj"
    /\ "content" \in DOMAIN line.v.o["message"].o
    /\ line.v.o["message"].o["content"].t = "str"

\* The first 100 characters of the content of the first such record
RECURSIVE FirstStringContent(_)
FirstStringContent(lines) ==
    IF lines = <<>> THEN <<>>
    ELSE IF HasStringContent(Head(lines))
    THEN Prefix(Head(lines).v.o["message"].o["content"].s, 100)
    ELSE FirstStringContent(Tail(lines))

\* C7: the first_prompt of an orphan is the first 100 characters of the
\* content of the first record with a message whose content is a plain
\* string; every other line is passed over.
C7_FirstPromptOfFirstStringContent ==
    pc = "collected" =>
      \A k \in 1..Len(orphans) :
        orphans[k].first_prompt = FirstStringContent(logs[OrphanLog].lines)

----------------------------------------------------------------------------
(* Properties of SpecView.                                                 *)

ViewedLines == logs[OrphanLog].lines

\* Whether a line is a message that view_session counts
IsCounted(line) ==
    /\ line.valid
    /\ line.v.t = "obj"
    /\ "message" \in DOMAIN line.v.o
    /\ line.v.o["message"].t = "obj"
    /\ Strip(extract_message_content(Get(line.v.o["message"].o, "content", JStr(<<>>))))
         # <<>>

CountedAmong(n) == Cardinality({k \in 1..n : IsCounted(ViewedLines[k])})

\* The role headings emitted, in order
Headings == SelectSeq(out_lines, LAMBDA e : e.k \in {"user", "assistant"})

\* The role headings of the user and assistant messages among the first n lines
RECURSIVE HeadingsAmong(_)
HeadingsAmong(n) ==
    IF n = 0 THEN <<>>
    ELSE LET line == ViewedLines[n]
             role == Get(line.v.o["message"].o, "role", <<"unknown">>)
         IN  HeadingsAmong(n - 1)
             \o (IF IsCounted(line) /\ role = <<"user">> THEN <<"user">>
                 ELSE IF IsCounted(line) /\ role = <<"assistant">> THEN <<"assistant">>
                 ELSE <<>>)

Truncated == \E k \in 1..Len(out_lines) : out_lines[k].k = "truncated"

\* C10: while and after the file is read, the messages counted are those of
\* the lines read and the sections emitted are theirs, in file order; with
\* a cap N > 0 at most N messages are counted and at most N sections
\* emitted, and once N are counted the last line read is the N-th counted
\* message; with cap 0 the loop is never cut short, the truncation notice is
\* never emitted and a normal return has read every line.
C10_MessageCap ==
    pc \in {"reading", "closed", "done"} /\ FoundFile(matches) # None =>
      LET N == argv.max_messages
          read == lineno - 1
      IN  /\ read <= Len(ViewedLines)
          /\ message_count = CountedAmong(read)
          /\ [k \in 1..Len(Headings) |-> Headings[k].k] = HeadingsAmong(read)
          /\ N > 0 => /\ message_count <= N
                      /\ Len(Headings) <= N
                      /\ message_count = N => IsCounted(ViewedLines[read])
          /\ Truncated => N > 0 /\ message_count = N /\ read < Len(ViewedLines)
          /\ N = 0 => /\ pc # "closed"
                      /\ pc = "done" => read = Len(ViewedLines)

\* A transcript cut short by the cap, with a counted message left unread
C10_Witness ==
    /\ pc = "done"
    /\ argv.max_messages = 1
    /\ Truncated
    /\ Len(Headings) = 1
    /\ CountedAmong(Len(ViewedLines)) > 1

----------------------------------------------------------------------------
(* Properties of SpecGroup.                                                *)

\* The instant of a created value as timezone-naive UTC, the least instant
\* for None
Instant(created) ==
    IF created = None THEN DatetimeMin
    ELSE IF created[1].off = None THEN created[1].wall
    ELSE created[1].wall - created[1].off[1]

\* The position of a session in the input list
InputIndex(session) == Len(session.session_id)

Buckets == by_date.buckets

\* C4: two sessions with the same created value are in the same bucket, in
\* their input order; every bucket is in ascending order of the normalized
\* timestamp with ties in input order; every session is in one bucket.
C4_StableGrouping ==
    pc = "grouped" =>
      /\ \A i, j \in 1..Len(sessions) :
           i < j /\ sessions[i].created = sessions[j].created =>
             \E key \in DOMAIN Buckets : \E p, q \in 1..Len(Buckets[key]) :
               p < q /\ Buckets[key][p] = sessions[i] /\ Buckets[key][q] = sessions[j]
      /\ \A key \in DOMAIN Buckets : \A p, q \in 1..Len(Buckets[key]) :
           p < q =>
             \/ Instant(Buckets[key][p].created) < Instant(Buckets[key][q].created)
             \/ /\ Instant(Buckets[key][p].created) = Instant(Buckets[key][q].created)
                /\ InputIndex(Buckets[key][p]) < InputIndex(Buckets[key][q])
      /\ \A i \in 1..Len(sessions) :
           Cardinality({slot \in (DOMAIN Buckets) \X (1..Len(sessions)) :
                          /\ slot[2] <= Len(Buckets[slot[1]])
                          /\ Buckets[slot[1]][slot[2]] = sessions[i]}) = 1

\* A bucket that the sort reordered and that holds two sessions of the same
\* instant written with different offsets
C4_Witness ==
    /\ pc = "grouped"
    /\ \E key \in DOMAIN Buckets : \E p, q, r \in 1..Len(Buckets[key]) :
         /\ p < q
         /\ Instant(Buckets[key][p].created) = Instant(Buckets[key][q].created)
         /\ Buckets[key][p].created # Buckets[key][q].created
         /\ r < Len(Buckets[key])
         /\ InputIndex(Buckets[key][r]) > InputIndex(Buckets[key][r + 1])

----------------------------------------------------------------------------
(* Properties of SpecDecode.                                               *)

DashFree(segs) == \A k \in 1..Len(segs) : ~Contains(segs[k], <<"-">>)

\* Whether two adjacent segments of a path, joined by "_", name a path that
\* exists beside it
MergeExists(segs) ==
    \E k \in 1..(Len(segs) - 1) :
      SlashJoin(Append(SubSeq(segs, 1, k - 1), segs[k] \o <<"_">> \o segs[k + 1]))
        \in disk

\* C8 as stated: the encoding of an existing path with no "-" in a segment
\* decodes to the path, whatever else exists; a string that does not start
\* with "-" is returned unchanged.
C8_RoundTrip ==
    pc = "decoded" =>
      /\ \A segs \in SegmentLists :
           DashFree(segs) /\ SlashJoin(segs) \in disk
             /\ encoded = EncodePath(SlashJoin(segs))
           => decoded = Some(SlashJoin(segs))
      /\ ~StartsWith(encoded, <<"-">>) => decoded = Some(encoded)

\* C8 amended: the same, for the paths beside which no path exists that
\* joins two adjacent segments by "_".
C8_RoundTripUnlessMergeExists ==
    pc = "decoded" =>
      /\ \A segs \in SegmentLists :
           DashFree(segs) /\ SlashJoin(segs) \in disk
             /\ encoded = EncodePath(SlashJoin(segs))
             /\ ~MergeExists(segs)
           => decoded = Some(SlashJoin(segs))
      /\ ~StartsWith(encoded, <<"-">>) => decoded = Some(encoded)

\* A path of three segments decoded from its encoding, on a disk that holds
\* other paths
C8_Witness ==
    /\ pc = "decoded"
    /\ \E segs \in SegmentLists :
         /\ Len(segs) = 3
         /\ DashFree(segs)
         /\ SlashJoin(segs) \in disk
         /\ encoded = EncodePath(SlashJoin(segs))
         /\ ~MergeExists(segs)
         /\ decoded = Some(SlashJoin(segs))
    /\ Cardinality(disk) >= 3

====
